---- MODULE Spec2Model ----
(***************************************************************************)
(* Model of drf-date-versioning (date_versioning/__init__.py):             *)
(*   - DateHeaderVersioning.determine_version  (version negotiation)       *)
(*   - APIChange / RemoveField / RenameField / AddField / ChangeField      *)
(*   - VersionedSerializer.version / versions / get_fields / data /        *)
(*     updated_data                                                        *)
(* Text is modelled as sequences of one-character strings so that the      *)
(* string comparison `name > self.version` and strptime/strftime are       *)
(* computed character by character, as Python computes them.               *)
(***************************************************************************)
EXTENDS Integers, Sequences, FiniteSets, TLC

VARIABLES
    META,            \* request.META['HTTP_X_VERSION'] : a text, or Absent
    now,             \* the date datetime.now() returns
    negotiated,      \* outcome of determine_version
    change,          \* the Change object under test
    callerFields,    \* the field set object the caller holds (optional)
    callerPayload,   \* the payload object the caller holds (optional)
    origFields,      \* contents of callerFields before the first call
    origPayload,     \* contents of callerPayload before the first call
    origChange,      \* the Change object as constructed
    returned,        \* what the last update/downgrade call returned
    calls,           \* the calls made so far, in order
    Meta,            \* Meta.versions of the serializer class, as registered
    request,         \* the context the serializer was constructed with
    mode,            \* constructed with instance= or with data=
    initial_data,    \* the data= argument
    fieldsCache,     \* the cached `fields` property
    nestedFieldsCache, \* the cached `fields` of the nested serializer
    validated,       \* _validated_data / _errors, once is_valid() has run
    dataCache,       \* _data
    lastRead,        \* the last property read and what it gave
    rebinds,         \* how often request.version was reassigned
    resolved         \* self.version at the first read of fields or data

negVars == <<META, now, negotiated>>
opVars == <<change, callerFields, callerPayload, origFields, origPayload,
            origChange, returned, calls>>
serVars == <<Meta, request, mode, initial_data, fieldsCache,
             nestedFieldsCache, validated, dataCache, lastRead, rebinds,
             resolved>>
vars == <<negVars, opVars, serVars>>

--------------------------------------------------------------------------
(* Text                                                                    *)

Digits == <<"0", "1", "2", "3", "4", "5", "6", "7", "8", "9">>

IsDigit(c) == \E i \in 1..10 : Digits[i] = c

DigitVal(c) == (CHOOSE i \in 1..10 : Digits[i] = c) - 1

\* code point of the characters that occur in the model
Ord(c) ==
    CASE c = " " -> 32
      [] c = "-" -> 45
      [] c = "/" -> 47
      [] IsDigit(c) -> 48 + DigitVal(c)
      [] OTHER -> 110

Min(a, b) == IF a < b THEN a ELSE b

\* Python's str.__gt__ : lexicographic on code points, a proper prefix is
\* smaller than the longer text
StrGt(a, b) ==
    LET n == Min(Len(a), Len(b))
        diff == {i \in 1..n : a[i] # b[i]}
    IN  IF diff = {}
        THEN Len(a) > Len(b)
        ELSE LET i == CHOOSE j \in diff : \A k \in diff : j <= k
             IN  Ord(a[i]) > Ord(b[i])

TwoDigits(n) == <<Digits[(n \div 10) + 1], Digits[(n % 10) + 1]>>

\* datetime.strftime('%Y-%m-%d') : zero padded year, month and day
Strftime(d) ==
    TwoDigits(d[1] \div 100) \o TwoDigits(d[1] % 100) \o <<"-">>
        \o TwoDigits(d[2]) \o <<"-">> \o TwoDigits(d[3])

IsLeap(y) == (y % 4 = 0 /\ y % 100 # 0) \/ y % 400 = 0

DaysInMonth(y, m) ==
    IF m = 2 THEN (IF IsLeap(y) THEN 29 ELSE 28)
    ELSE IF m \in {4, 6, 9, 11} THEN 30 ELSE 31

\* the regular expression of %m : 1[0-2]|0[1-9]|[1-9]
MatchMonth(t) ==
    \/ Len(t) = 2 /\ t[1] = "1" /\ t[2] \in {"0", "1", "2"}
    \/ Len(t) = 2 /\ t[1] = "0" /\ IsDigit(t[2]) /\ t[2] # "0"
    \/ Len(t) = 1 /\ IsDigit(t[1]) /\ t[1] # "0"

\* the regular expression of %d : 3[01]|[12]\d|0[1-9]|[1-9]| [1-9]
\* number of characters the first matching alternative consumes, 0 if none
MatchDayPrefix(t) ==
    IF Len(t) >= 2 /\ t[1] = "3" /\ t[2] \in {"0", "1"} THEN 2
    ELSE IF Len(t) >= 2 /\ t[1] \in {"1", "2"} /\ IsDigit(t[2]) THEN 2
    ELSE IF Len(t) >= 2 /\ t[1] = "0" /\ IsDigit(t[2]) /\ t[2] # "0" THEN 2
    ELSE IF Len(t) >= 1 /\ IsDigit(t[1]) /\ t[1] # "0" THEN 1
    ELSE IF Len(t) >= 2 /\ t[1] = " " /\ IsDigit(t[2]) /\ t[2] # "0" THEN 2
    ELSE 0

NumVal(t) ==
    IF Len(t) = 1 THEN DigitVal(t[1])
    ELSE IF t[1] = " " THEN DigitVal(t[2])
    ELSE 10 * DigitVal(t[1]) + DigitVal(t[2])

NoDate == <<0, 0, 0>>

\* datetime.strptime(s, '%Y-%m-%d') : the parsed date, NoDate for ValueError
Strptime(s) ==
    LET yearOk == Len(s) >= 5 /\ (\A i \in 1..4 : IsDigit(s[i])) /\ s[5] = "-"
        MonthLen(k) == Len(s) >= 6 + k /\ MatchMonth(SubSeq(s, 6, 5 + k))
                          /\ s[6 + k] = "-"
        mlen == IF MonthLen(2) THEN 2 ELSE IF MonthLen(1) THEN 1 ELSE 0
        rest == SubSeq(s, 7 + mlen, Len(s))
        dlen == MatchDayPrefix(rest)
        y == 1000 * DigitVal(s[1]) + 100 * DigitVal(s[2])
               + 10 * DigitVal(s[3]) + DigitVal(s[4])
        m == NumVal(SubSeq(s, 6, 5 + mlen))
        d == NumVal(SubSeq(rest, 1, dlen))
    IN  IF ~yearOk \/ mlen = 0 \/ dlen = 0 THEN NoDate
        ELSE IF dlen # Len(rest) THEN NoDate      \* unconverted data remains
        ELSE IF y < 1 \/ d > DaysInMonth(y, m) THEN NoDate
        ELSE <<y, m, d>>

\* calendar order of two dates
DateLt(a, b) ==
    \/ a[1] < b[1]
    \/ a[1] = b[1] /\ a[2] < b[2]
    \/ a[1] = b[1] /\ a[2] = b[2] /\ a[3] < b[3]

--------------------------------------------------------------------------
(* Version negotiation                                                     *)

Absent == <<"absent">>

Dates == {<<2018, 7, 27>>, <<2018, 7, 29>>, <<2018, 8, 1>>,
          <<2018, 10, 2>>, <<2019, 2, 28>>}

YearTexts == {<<"2", "0", "1", "8">>, <<"2", "0", "1", "9">>, <<"2", "0", "1">>}
MonthTexts == {<<"0", "7">>, <<"8">>, <<"1", "0">>, <<"1", "3">>, <<"0", "2">>}
DayTexts == {<<"0", "2">>, <<"2">>, <<"2", "9">>, <<"3", "1">>, <<"3", "2">>,
             <<"0">>, <<" ", "2">>}

GarbageTexts == {<<"n", "o", "t", "-", "a", "-", "d", "a", "t", "e">>,
                 <<>>,
                 <<"2", "0", "1", "8", "/", "0", "8", "/", "0", "3">>,
                 <<"2", "0", "1", "8", "-", "0", "8">>,
                 <<"2", "0", "1", "8", "-", "0", "8", "-", "0", "3", " ">>}

Headers ==
    {y \o <<"-">> \o m \o <<"-">> \o d :
        y \in YearTexts, m \in MonthTexts, d \in DayTexts} \cup GarbageTexts

NotNegotiated == [outcome |-> "none", version |-> <<>>]

\* raise exceptions.NotAcceptable(self.invalid_version_message)
NotAcceptable == [outcome |-> "NotAcceptable", version |-> <<>>]

\* a parse failure falls back to today's date instead of raising
determine_version_default(meta, today) ==
    IF meta = Absent \/ Strptime(meta) = NoDate
    THEN [outcome |-> "returned", version |-> Strftime(today)]
    ELSE [outcome |-> "returned", version |-> meta]

determine_version(meta, today) ==
    IF meta = Absent
    THEN [outcome |-> "returned", version |-> Strftime(today)]
    ELSE IF Strptime(meta) # NoDate
         THEN [outcome |-> "returned", version |-> meta]
         ELSE NotAcceptable

NegIdle ==
    /\ META = Absent
    /\ now = <<2018, 8, 1>>
    /\ negotiated = NotNegotiated

NegInit ==
    /\ META \in Headers \cup {Absent}
    /\ now \in Dates
    /\ negotiated = NotNegotiated

DetermineVersion ==
    /\ negotiated = NotNegotiated
    /\ negotiated' = determine_version(META, now)
    /\ UNCHANGED <<META, now>>

--------------------------------------------------------------------------
(* Values, payloads and field sets                                         *)

\* A Python value: t is its type, s is str(value), d the items of a dict
Val(t, s) == [t |-> t, s |-> s, d |-> <<>>]
PyNone == Val("none", "None")
DictVal(p) == [t |-> "dict", s |-> "", d |-> p]

\* An optional argument: none = TRUE stands for Python's None
None == [none |-> TRUE, v |-> <<>>]
Some(x) == [none |-> FALSE, v |-> x]

\* dict operations on a payload (a function from key to value)
HasKey(p, k) == k \in DOMAIN p
DictSet(p, k, x) == [n \in DOMAIN p \cup {k} |-> IF n = k THEN x ELSE p[n]]
DictDel(p, k) == [n \in DOMAIN p \ {k} |-> p[n]]

\* OrderedDict operations on a field set (a sequence of name/field pairs)
FieldNames(f) == {f[i].name : i \in DOMAIN f}
FieldIndex(f, k) == CHOOSE i \in DOMAIN f : f[i].name = k
FieldGet(f, k) == f[FieldIndex(f, k)].field
FieldSet(f, k, x) ==
    IF k \in FieldNames(f)
    THEN [i \in DOMAIN f |-> IF f[i].name = k THEN [name |-> k, field |-> x]
                                            ELSE f[i]]
    ELSE Append(f, [name |-> k, field |-> x])
FieldDel(f, k) ==
    LET i == FieldIndex(f, k)
    IN  SubSeq(f, 1, i - 1) \o SubSeq(f, i + 1, Len(f))

--------------------------------------------------------------------------
(* Field conversions of rest_framework consumed by ChangeField             *)

Converted(x) == [exc |-> "none", v |-> x]
ConvFail(e) == [exc |-> e, v |-> PyNone]

IntTexts == {"0", "1", "5"}
TrueTexts == {"True", "1"}
FalseTexts == {"False", "0"}

\* Field.to_internal_value
to_internal_value(field, x) ==
    CASE field = "CharField" ->
            IF x.t \in {"str", "int"} THEN Converted(Val("str", x.s))
            ELSE ConvFail("ValidationError")
      [] field = "IntegerField" ->
            IF x.t \in {"str", "int"} /\ x.s \in IntTexts
            THEN Converted(Val("int", x.s))
            ELSE ConvFail("ValidationError")
      [] field = "BooleanField" ->
            IF x.t \in {"str", "int", "bool"} /\ x.s \in TrueTexts
            THEN Converted(Val("bool", "True"))
            ELSE IF x.t \in {"str", "int", "bool"} /\ x.s \in FalseTexts
            THEN Converted(Val("bool", "False"))
            ELSE ConvFail("ValidationError")
      [] OTHER -> ConvFail("ValidationError")

\* Field.to_representation
to_representation(field, x) ==
    CASE field = "CharField" -> Converted(Val("str", x.s))
      [] field = "IntegerField" ->
            IF x.t \in {"str", "int"} /\ x.s \in IntTexts
            THEN Converted(Val("int", x.s))
            ELSE IF x.t = "bool"
            THEN Converted(Val("int", IF x.s = "True" THEN "1" ELSE "0"))
            ELSE IF x.t = "str" THEN ConvFail("ValueError")
            ELSE ConvFail("TypeError")
      [] field = "BooleanField" ->
            IF x.t \in {"str", "int", "bool"} /\ x.s \in TrueTexts
            THEN Converted(Val("bool", "True"))
            ELSE IF x.t \in {"str", "int", "bool"} /\ x.s \in FalseTexts
            THEN Converted(Val("bool", "False"))
            ELSE IF x.t = "none" THEN Converted(Val("bool", "False"))
            ELSE Converted(Val("bool", "True"))
      [] OTHER -> ConvFail("TypeError")

--------------------------------------------------------------------------
(* Change objects                                                          *)

NoField == "-"

APIChange ==
    [op |-> "APIChange", name |-> "", from_name |-> "", to |-> "",
     field |-> NoField, new_field |-> NoField, default |-> PyNone]
RemoveField(name, field, default) ==
    [op |-> "RemoveField", name |-> name, from_name |-> "", to |-> "",
     field |-> field, new_field |-> NoField, default |-> default]
RenameField(from_name, to) ==
    [op |-> "RenameField", name |-> "", from_name |-> from_name, to |-> to,
     field |-> NoField, new_field |-> NoField, default |-> PyNone]
AddField(name, field, default) ==
    [op |-> "AddField", name |-> name, from_name |-> "", to |-> "",
     field |-> field, new_field |-> NoField, default |-> default]
ChangeField(name, field, new_field) ==
    [op |-> "ChangeField", name |-> name, from_name |-> "", to |-> "",
     field |-> field, new_field |-> new_field, default |-> PyNone]

\* Result of update: the exception raised (or "none") and the returned
\* payload.  Every update works on the mapping it was given: the returned
\* payload IS the argument object, so payload is also the content of the
\* caller's mapping after the call (also when an exception was raised).
Updated(p) == [exc |-> "none", payload |-> p]
UpdateRaised(e, p) == [exc |-> e, payload |-> p]

\* Result of downgrade.  shape = "tuple" for `return fields, payload`,
\* "payload" for `return payload`.  fields and payload are the argument
\* objects themselves, mutated in place.
Downgraded(f, p) == [exc |-> "none", shape |-> "tuple", fields |-> f, payload |-> p]
DowngradeRaised(e, f, p) == [exc |-> e, shape |-> "none", fields |-> f, payload |-> p]

APIChange_update(self, payload) == Updated(payload)

APIChange_downgrade(self, fields, payload) ==
    [exc |-> "none", shape |-> "payload", fields |-> fields, payload |-> payload]

RemoveField_get_value(self, payload) == self.default

RemoveField_update(self, payload) ==
    IF payload.none THEN Updated(payload)
    ELSE IF ~HasKey(payload.v, self.name) THEN UpdateRaised("KeyError", payload)
    ELSE Updated(Some(DictDel(payload.v, self.name)))

RemoveField_downgrade(self, fields, payload) ==
    LET f == IF fields.none THEN fields
             ELSE Some(FieldSet(fields.v, self.name, self.field))
        p == IF payload.none THEN payload
             ELSE Some(DictSet(payload.v, self.name,
                               RemoveField_get_value(self, payload)))
    IN  Downgraded(f, p)

RenameField_downgrade(self, fields, payload) ==
    LET fRaises == ~fields.none /\ self.to \notin FieldNames(fields.v)
        f == IF fields.none \/ fRaises THEN fields
             ELSE Some(FieldDel(FieldSet(fields.v, self.from_name,
                                         FieldGet(fields.v, self.to)),
                                self.to))
        pRaises == ~payload.none /\ ~HasKey(payload.v, self.to)
        p == IF payload.none \/ pRaises THEN payload
             ELSE Some(DictDel(DictSet(payload.v, self.from_name,
                                       payload.v[self.to]),
                               self.to))
    IN  IF fRaises THEN DowngradeRaised("KeyError", fields, payload)
        ELSE IF pRaises THEN DowngradeRaised("KeyError", f, payload)
        ELSE Downgraded(f, p)

RenameField_update(self, payload) ==
    IF payload.none THEN Updated(payload)
    ELSE IF ~HasKey(payload.v, self.from_name)
    THEN UpdateRaised("KeyError", payload)
    ELSE Updated(Some(DictDel(DictSet(payload.v, self.to,
                                      payload.v[self.from_name]),
                              self.from_name)))

AddField_get_value(self, payload) == self.default

AddField_downgrade(self, fields, payload) ==
    LET fRaises == ~fields.none /\ self.name \notin FieldNames(fields.v)
        f == IF fields.none \/ fRaises THEN fields
             ELSE Some(FieldDel(fields.v, self.name))
        pRaises == ~payload.none /\ ~HasKey(payload.v, self.name)
        p == IF payload.none \/ pRaises THEN payload
             ELSE Some(DictDel(payload.v, self.name))
    IN  IF fRaises THEN DowngradeRaised("KeyError", fields, payload)
        ELSE IF pRaises THEN DowngradeRaised("KeyError", f, payload)
        ELSE Downgraded(f, p)

AddField_update(self, payload) ==
    IF payload.none THEN Updated(payload)
    ELSE Updated(Some(DictSet(payload.v, self.name,
                              AddField_get_value(self, payload))))

ChangeField_downgrade(self, fields, payload) ==
    LET f == IF fields.none THEN fields
             ELSE Some(FieldSet(fields.v, self.name, self.field))
        missing == ~payload.none /\ ~HasKey(payload.v, self.name)
        obj == to_internal_value(self.new_field, payload.v[self.name])
        rep == to_representation(self.field, obj.v)
    IN  IF payload.none THEN Downgraded(f, payload)
        ELSE IF missing THEN DowngradeRaised("KeyError", f, payload)
        ELSE IF obj.exc # "none" THEN DowngradeRaised(obj.exc, f, payload)
        ELSE IF rep.exc # "none" THEN DowngradeRaised(rep.exc, f, payload)
        ELSE Downgraded(f, Some(DictSet(payload.v, self.name, rep.v)))

ChangeField_update(self, payload) ==
    LET missing == ~HasKey(payload.v, self.name)
        obj == to_internal_value(self.new_field, payload.v[self.name])
        rep == to_representation(self.new_field, payload.v[self.name])
    IN  IF payload.none THEN Updated(payload)
        ELSE IF missing THEN UpdateRaised("KeyError", payload)
        ELSE IF obj.exc # "none" THEN UpdateRaised(obj.exc, payload)
        ELSE IF rep.exc # "none" THEN UpdateRaised(rep.exc, payload)
        ELSE Updated(Some(DictSet(payload.v, self.name, rep.v)))

\* method dispatch: change.update(payload=payload)
update(self, payload) ==
    CASE self.op = "APIChange" -> APIChange_update(self, payload)
      [] self.op = "RemoveField" -> RemoveField_update(self, payload)
      [] self.op = "RenameField" -> RenameField_update(self, payload)
      [] self.op = "AddField" -> AddField_update(self, payload)
      [] self.op = "ChangeField" -> ChangeField_update(self, payload)

\* method dispatch: change.downgrade(fields=fields, payload=payload)
downgrade(self, fields, payload) ==
    CASE self.op = "APIChange" -> APIChange_downgrade(self, fields, payload)
      [] self.op = "RemoveField" -> RemoveField_downgrade(self, fields, payload)
      [] self.op = "RenameField" -> RenameField_downgrade(self, fields, payload)
      [] self.op = "AddField" -> AddField_downgrade(self, fields, payload)
      [] self.op = "ChangeField" -> ChangeField_downgrade(self, fields, payload)

--------------------------------------------------------------------------
(* Calling update and downgrade on one Change, as the tests of             *)
(* TestOperations do                                                       *)

MaxCalls == 2

Names == {"a", "b", "c"}
FieldTypes == {"CharField", "IntegerField", "BooleanField"}
Defaults == {PyNone, Val("str", "x")}

OpChanges ==
    {APIChange}
    \cup {RemoveField(n, "CharField", PyNone) : n \in Names}
    \cup {RenameField(f, t) : f \in Names, t \in Names}
    \cup {AddField(n, "CharField", d) : n \in Names, d \in Defaults}
    \cup {ChangeField("a", fg[1], fg[2]) :
             fg \in {x \in FieldTypes \X FieldTypes : x[1] # x[2]}}

Missing == Val("missing", "")
ValuesA == {Val("str", "x"), Val("str", "5"), Val("int", "5"),
            Val("bool", "True"), PyNone}
ValuesBC == {Val("str", "x"), PyNone}

\* the payload with value x[k] under every key k whose x[k] is not Missing
PayloadOf(x) == [k \in {n \in DOMAIN x : x[n] # Missing} |-> x[k]]

OpPayloads ==
    {PayloadOf([a |-> xa, b |-> xb, c |-> xc]) :
        xa \in ValuesA \cup {Missing}, xb \in ValuesBC \cup {Missing},
        xc \in ValuesBC \cup {Missing}}

Decl(name, field) == [name |-> name, field |-> field]

OpFieldSets == {<<Decl("a", "CharField"), Decl("b", "IntegerField")>>,
                <<Decl("c", "CharField"), Decl("a", "IntegerField")>>}

NothingReturned == [exc |-> "none", shape |-> "none", fields |-> None, payload |-> None]

OpIdle ==
    /\ change = APIChange
    /\ origChange = APIChange
    /\ callerFields = None
    /\ callerPayload = None
    /\ origFields = None
    /\ origPayload = None
    /\ returned = NothingReturned
    /\ calls = <<>>

OpInit ==
    /\ change \in OpChanges
    /\ origChange = change
    /\ callerFields \in {None} \cup {Some(f) : f \in OpFieldSets}
    /\ callerPayload \in {None} \cup {Some(p) : p \in OpPayloads}
    /\ origFields = callerFields
    /\ origPayload = callerPayload
    /\ returned = NothingReturned
    /\ calls = <<>>

\* returned = change.update(payload=callerPayload)
CallUpdate ==
    /\ Len(calls) < MaxCalls
    /\ returned.exc = "none"
    /\ LET r == update(change, callerPayload)
       IN  /\ callerPayload' = r.payload
           /\ returned' = IF r.exc = "none"
                          THEN [exc |-> "none", shape |-> "payload",
                                fields |-> None, payload |-> r.payload]
                          ELSE [exc |-> r.exc, shape |-> "none",
                                fields |-> None, payload |-> None]
    /\ calls' = Append(calls, "update")
    /\ UNCHANGED <<change, origChange, callerFields, origFields, origPayload>>

\* returned = change.downgrade(fields=callerFields, payload=callerPayload)
CallDowngrade ==
    /\ Len(calls) < MaxCalls
    /\ returned.exc = "none"
    /\ LET r == downgrade(change, callerFields, callerPayload)
       IN  /\ callerFields' = r.fields
           /\ callerPayload' = r.payload
           /\ returned' = IF r.exc = "none"
                          THEN IF r.shape = "tuple" THEN r
                               ELSE [r EXCEPT !.fields = None]
                          ELSE [r EXCEPT !.fields = None, !.payload = None]
    /\ calls' = Append(calls, "downgrade")
    /\ UNCHANGED <<change, origChange, origFields, origPayload>>

--------------------------------------------------------------------------
(* VersionedSerializer: version resolution and the folds                   *)

\* what the serializer was given as context
NoContext == [kind |-> "nocontext", version |-> <<>>]
NoRequest == [kind |-> "norequest", version |-> <<>>]
NoVersionAttribute == [kind |-> "noversion", version |-> <<>>]
Versioned(v) == [kind |-> "versioned", version |-> v]

\* VersionedSerializer.version : request.version of the serializer's own
\* _context, else of the context of its root, else None
version(own_context, root_context) ==
    IF own_context.kind = "versioned" THEN Some(own_context.version)
    ELSE IF root_context.kind = "versioned" THEN Some(root_context.version)
    ELSE None

\* a value of Meta.versions: one Change, or a list of Changes
Single(c) == [group |-> FALSE, changes |-> <<c>>]
Group(cs) == [group |-> TRUE, changes |-> cs]
Registered(k, e) == [key |-> k, entry |-> e]

\* the key equal to the version is selected too (>= for >)
versions_inclusive(meta, ver) ==
    IF ver.none THEN <<>>
    ELSE SelectSeq(meta, LAMBDA item : ~StrGt(ver.v, item.key))

\* the test for an unbound version is missing: None compares below every key
versions_unchecked(meta, ver) ==
    SelectSeq(meta, LAMBDA item : StrGt(item.key, ver.v))

\* VersionedSerializer.versions : the registered items whose key compares
\* greater than the version, in registration order
versions(meta, ver) ==
    IF ver.none THEN <<>>
    ELSE SelectSeq(meta, LAMBDA item : StrGt(item.key, ver.v))

Folded(x, order) == [exc |-> "none", v |-> x, order |-> order]
FoldRaised(e, x, order) == [exc |-> e, v |-> x, order |-> order]

\* a local variable: Op is what follows the assignment of x to it
Let(x, Op(_)) == Op(x)

\* v.downgrade(fields=cur)[0] (index 0) or v.downgrade(payload=cur)[1]
\* (index 1).  Subscripting what APIChange.downgrade returns fails: None is
\* not subscriptable (TypeError), a payload has no key 0 or 1 (KeyError).
downgrade_item(c, cur, index) ==
    Let(downgrade(c, IF index = 0 THEN cur ELSE None,
                     IF index = 0 THEN None ELSE cur),
        LAMBDA r :
          IF r.exc # "none"
          THEN [exc |-> r.exc, v |-> IF index = 0 THEN r.fields ELSE r.payload]
          ELSE IF r.shape = "tuple"
          THEN [exc |-> "none", v |-> IF index = 0 THEN r.fields ELSE r.payload]
          ELSE IF r.payload.none THEN [exc |-> "TypeError", v |-> cur]
          ELSE [exc |-> "KeyError", v |-> cur])

\* try: for v in version: cur = v.downgrade(...)[index]
\* except TypeError: cur = version.downgrade(...)[index]
\* A single Change is not iterable (TypeError at once, the handler calls
\* it); a TypeError inside a list lands in the handler too, where the list
\* has no downgrade method (AttributeError).
RECURSIVE downgrade_group(_, _, _, _)
downgrade_group(cs, cur, index, i) ==
    IF i > Len(cs) THEN [exc |-> "none", v |-> cur]
    ELSE Let(downgrade_item(cs[i], cur, index),
             LAMBDA r :
               IF r.exc = "TypeError" THEN [exc |-> "AttributeError", v |-> r.v]
               ELSE IF r.exc # "none" THEN r
               ELSE downgrade_group(cs, r.v, index, i + 1))

downgrade_entry(entry, cur, index) ==
    IF entry.group THEN downgrade_group(entry.changes, cur, index, 1)
    ELSE downgrade_item(entry.changes[1], cur, index)

\* for version in self.versions.values(): ... (get_fields and data)
RECURSIVE downgrade_fold(_, _, _, _, _)
downgrade_fold(active, cur, index, i, order) ==
    IF i > Len(active) THEN Folded(cur, order)
    ELSE Let(downgrade_entry(active[i].entry, cur, index),
             LAMBDA r :
               IF r.exc # "none"
               THEN FoldRaised(r.exc, r.v, Append(order, active[i].key))
               ELSE downgrade_fold(active, r.v, index, i + 1,
                                   Append(order, active[i].key)))

RECURSIVE update_group(_, _, _)
update_group(cs, cur, i) ==
    IF i > Len(cs) THEN Updated(cur)
    ELSE Let(update(cs[i], cur),
             LAMBDA r :
               IF r.exc = "TypeError"
               THEN UpdateRaised("AttributeError", r.payload)
               ELSE IF r.exc # "none" THEN r
               ELSE update_group(cs, r.payload, i + 1))

update_entry(entry, cur) ==
    IF entry.group THEN update_group(entry.changes, cur, 1)
    ELSE update(entry.changes[1], cur)

\* for version in reversed(list(self.versions.values())): ... (updated_data)
RECURSIVE update_fold(_, _, _, _)
update_fold(active, cur, i, order) ==
    IF i < 1 THEN Folded(cur, order)
    ELSE Let(update_entry(active[i].entry, cur),
             LAMBDA r :
               IF r.exc # "none"
               THEN FoldRaised(r.exc, r.payload, Append(order, active[i].key))
               ELSE update_fold(active, r.payload, i - 1,
                                Append(order, active[i].key)))

\* VersionedSerializer.get_fields : a copy of the declared fields, folded
get_fields(declared, meta, ver) ==
    downgrade_fold(versions(meta, ver), Some(declared), 0, 1, <<>>)

--------------------------------------------------------------------------
(* The serializer classes of the model: a parent with two plain fields and *)
(* a nested VersionedSerializer, as PersonSerializer / HomeworldSerializer *)

K1 == Strftime(<<2018, 7, 29>>)
K2 == Strftime(<<2018, 10, 2>>)

CanonFields == <<Decl("a", "CharField"), Decl("b", "IntegerField"),
                 Decl("h", "Nested")>>

NestedDeclared == <<Decl("name", "CharField")>>
NestedMeta == <<Registered(K2, Single(RenameField("iName", "name")))>>

\* the object the serializer is bound to with instance=
Instance ==
    [a |-> Val("str", "5"), b |-> Val("int", "1"),
     h |-> DictVal([name |-> Val("str", "x")])]

Represented(p) == [exc |-> "none", v |-> p]
RepresentRaised(e) == [exc |-> e, v |-> <<>>]

\* Serializer.to_representation(obj) over the given field set; nested is
\* what the `fields` of the nested serializer evaluate to
RECURSIVE Serializer_to_representation(_, _, _, _, _)
Serializer_to_representation(fields, obj, nested, i, ret) ==
    IF i > Len(fields) THEN Represented(ret)
    ELSE
      LET name == fields[i].name
          field == fields[i].field
      IN  IF ~HasKey(obj, name) THEN RepresentRaised("KeyError")
          ELSE IF obj[name].t = "none"
          THEN Serializer_to_representation(fields, obj, nested, i + 1,
                                            DictSet(ret, name, PyNone))
          ELSE IF field = "Nested"
          THEN IF nested.exc # "none" THEN RepresentRaised(nested.exc)
               ELSE IF obj[name].t # "dict" THEN RepresentRaised("AttributeError")
               ELSE LET r == Serializer_to_representation(
                                 nested.v.v, obj[name].d, nested, 1, <<>>)
                    IN  IF r.exc # "none" THEN r
                        ELSE Serializer_to_representation(
                                 fields, obj, nested, i + 1,
                                 DictSet(ret, name, DictVal(r.v)))
          ELSE LET r == to_representation(field, obj[name])
               IN  IF r.exc # "none" THEN RepresentRaised(r.exc)
                   ELSE Serializer_to_representation(
                            fields, obj, nested, i + 1, DictSet(ret, name, r.v))

\* Serializer.to_internal_value(data): every field is required and not
\* nullable; errors are collected into one ValidationError, any other
\* exception propagates
RECURSIVE Serializer_to_internal_value(_, _, _, _, _, _)
Serializer_to_internal_value(fields, data, nested, i, ret, errors) ==
    IF i > Len(fields)
    THEN IF errors THEN RepresentRaised("ValidationError") ELSE Represented(ret)
    ELSE
      LET name == fields[i].name
          field == fields[i].field
      IN  IF ~HasKey(data, name) \/ data[name].t = "none"
          THEN Serializer_to_internal_value(fields, data, nested, i + 1, ret, TRUE)
          ELSE IF field = "Nested"
          THEN IF nested.exc # "none" THEN RepresentRaised(nested.exc)
               ELSE IF data[name].t # "dict"
               THEN Serializer_to_internal_value(fields, data, nested, i + 1,
                                                 ret, TRUE)
               ELSE LET r == Serializer_to_internal_value(
                                 nested.v.v, data[name].d, nested, 1, <<>>, FALSE)
                    IN  IF r.exc = "ValidationError"
                        THEN Serializer_to_internal_value(
                                 fields, data, nested, i + 1, ret, TRUE)
                        ELSE IF r.exc # "none" THEN r
                        ELSE Serializer_to_internal_value(
                                 fields, data, nested, i + 1,
                                 DictSet(ret, name, DictVal(r.v)), errors)
          ELSE LET r == to_internal_value(field, data[name])
               IN  IF r.exc # "none"
                   THEN Serializer_to_internal_value(
                            fields, data, nested, i + 1, ret, TRUE)
                   ELSE Serializer_to_internal_value(
                            fields, data, nested, i + 1,
                            DictSet(ret, name, r.v), errors)

\* Serializer.get_initial() when initial_data was given: the items of
\* initial_data under the names of the fields
get_initial(fields, data) ==
    [n \in FieldNames(fields) \cap DOMAIN data |-> data[n]]

\* getattr(self, key, None) for a key of the payload: the declared fields
\* are taken off the class when it is created and no payload key of the
\* model names an attribute of Serializer, so the lookup gives None
getattr_default(key) == "None"

\* lines 187-191: for key in data.keys(): a key whose attribute is a
\* VersionedSerializer gets `serializer.version = self.version`, which
\* raises AttributeError because the version property has no setter
nested_versions(data) ==
    IF \E key \in DOMAIN data : getattr_default(key) = "VersionedSerializer"
    THEN FoldRaised("AttributeError", Some(data), <<>>)
    ELSE Folded(Some(data), <<>>)

\* lines 176-192: data of a serializer bound to an instance.  The instance
\* is represented by a fresh serializer of the class, which has no context
\* (its fields, and those of its nested serializer, are the declared
\* ones); the result is folded with the changes active for ver.
instance_data(meta, ver) ==
    Let(get_fields(CanonFields, meta, version(NoContext, NoContext)),
        LAMBDA canon :
          IF canon.exc # "none" THEN FoldRaised(canon.exc, None, <<>>)
          ELSE
            Let(Serializer_to_representation(
                    canon.v.v, Instance,
                    get_fields(NestedDeclared, NestedMeta,
                               version(NoContext, NoContext)),
                    1, <<>>),
                LAMBDA rep :
                  IF rep.exc # "none" THEN FoldRaised(rep.exc, None, <<>>)
                  ELSE
                    Let(downgrade_fold(versions(meta, ver), Some(rep.v), 1, 1,
                                       <<>>),
                        LAMBDA fold :
                          IF fold.exc # "none"
                          THEN FoldRaised(fold.exc, None, fold.order)
                          ELSE IF nested_versions(fold.v.v).exc # "none"
                          THEN FoldRaised(nested_versions(fold.v.v).exc, None,
                                          fold.order)
                          ELSE fold)))

\* lines 149-160
updated_data(meta, ver, data) ==
    LET active == versions(meta, ver)
    IN  update_fold(active, Some(data), Len(active), <<>>)

--------------------------------------------------------------------------
(* One serializer instance: construction and the reads of its properties   *)

MaxRebinds == 1

SerChanges ==
    {APIChange,
     AddField("b", "IntegerField", Val("int", "0")),
     RemoveField("c", "CharField", PyNone),
     RenameField("c", "b"),
     RenameField("b", "a"),
     ChangeField("a", "IntegerField", "CharField"),
     ChangeField("a", "BooleanField", "CharField")}

SerGroups ==
    {<<RenameField("c", "b"), RenameField("b", "a")>>,
     <<RemoveField("c", "CharField", PyNone),
       AddField("b", "IntegerField", Val("int", "0"))>>,
     <<APIChange>>}

Entries == {Single(c) : c \in SerChanges} \cup {Group(g) : g \in SerGroups}

\* Meta.versions: no key, one key, or the two keys in either order of
\* registration
ChangeSets ==
    {<<>>}
    \cup {<<Registered(k, e)>> : k \in {K1, K2}, e \in Entries}
    \cup {<<Registered(K2, e2), Registered(K1, e1)>> : e1 \in Entries, e2 \in Entries}
    \cup {<<Registered(K1, e1), Registered(K2, e2)>> : e1 \in Entries, e2 \in Entries}

SerVersions ==
    {Strftime(d) : d \in Dates} \cup {<<"2", "0", "1", "8", "-", "8", "-", "1">>}

Contexts ==
    {NoContext, NoRequest, NoVersionAttribute} \cup {Versioned(v) : v \in SerVersions}

\* the output of the nested serializer for the nested object of Instance,
\* resolved at ver
nested_data(ver) ==
    downgrade_fold(versions(NestedMeta, ver), Some(Instance.h.d), 1, 1, <<>>)

\* the payload a client of version ver sends for the object Instance: the
\* representation of the object at that version, with a text under the
\* keys that have no value there
version_input(meta, ver) ==
    Let(instance_data(meta, ver),
        LAMBDA r :
          IF r.exc # "none" THEN Instance
          ELSE [n \in DOMAIN r.v.v |->
                   IF r.v.v[n].t = "dict" THEN DictVal(nested_data(ver).v.v)
                   ELSE IF r.v.v[n].t = "none" THEN Val("str", "old")
                   ELSE r.v.v[n]])

Unset == [set |-> FALSE, v |-> <<>>]
Cached(x) == [set |-> TRUE, v |-> x]

NothingRead ==
    [prop |-> "none", exc |-> "none", fields |-> None, payload |-> None,
     keys |-> <<>>]
Read(prop, exc, fields, payload, keys) ==
    [prop |-> prop, exc |-> exc, fields |-> fields, payload |-> payload,
     keys |-> keys]

SerIdle ==
    /\ Meta = <<>>
    /\ request = NoContext
    /\ mode = "instance"
    /\ initial_data = <<>>
    /\ fieldsCache = Unset
    /\ nestedFieldsCache = Unset
    /\ validated = [state |-> "unset", v |-> <<>>]
    /\ dataCache = Unset
    /\ lastRead = NothingRead
    /\ rebinds = 0
    /\ resolved = [set |-> FALSE, ver |-> None]

Constructed ==
    /\ fieldsCache = Unset
    /\ nestedFieldsCache = Unset
    /\ validated = [state |-> "unset", v |-> <<>>]
    /\ dataCache = Unset
    /\ lastRead = NothingRead
    /\ rebinds = 0
    /\ resolved = [set |-> FALSE, ver |-> None]

\* PersonSerializer(instance=Instance, context=...) or
\* PersonSerializer(data=..., context=...)
SerInit ==
    /\ Meta \in ChangeSets
    /\ request \in Contexts
    /\ mode \in {"instance", "data"}
    /\ initial_data \in
         IF mode = "instance" THEN {<<>>}
         ELSE {Instance, version_input(Meta, version(request, request))}
    /\ Constructed

\* self.version of the serializer, and of its nested serializer (whose own
\* _context is empty and whose root carries the context)
selfVersion == version(request, request)
nestedVersion == version(NoContext, request)

\* self.fields: computed by get_fields on first access, then cached
fieldsNow ==
    IF fieldsCache.set THEN Folded(Some(fieldsCache.v), <<>>)
    ELSE get_fields(CanonFields, Meta, selfVersion)

nestedFieldsNow ==
    IF nestedFieldsCache.set THEN Folded(Some(nestedFieldsCache.v), <<>>)
    ELSE get_fields(NestedDeclared, NestedMeta, nestedVersion)

HasNested(fields, data) ==
    \E i \in DOMAIN fields :
        /\ fields[i].field = "Nested"
        /\ HasKey(data, fields[i].name)
        /\ data[fields[i].name].t = "dict"

Resolve ==
    resolved' = IF resolved.set THEN resolved
                ELSE [set |-> TRUE, ver |-> selfVersion]

\* serializer.versions
ReadVersions ==
    /\ lastRead' = Read("versions", "none", None, None,
                        [i \in DOMAIN versions(Meta, selfVersion) |->
                            versions(Meta, selfVersion)[i].key])
    /\ UNCHANGED <<Meta, request, mode, initial_data, fieldsCache,
                   nestedFieldsCache, validated, dataCache, rebinds, resolved>>

\* serializer.fields
ReadFields ==
    /\ \E f \in {fieldsNow} :
           /\ lastRead' = Read("fields", f.exc,
                               IF f.exc = "none" THEN f.v ELSE None, None,
                               f.order)
           /\ fieldsCache' = IF f.exc = "none" THEN Cached(f.v.v) ELSE fieldsCache
    /\ Resolve
    /\ UNCHANGED <<Meta, request, mode, initial_data, nestedFieldsCache,
                   validated, dataCache, rebinds>>

\* serializer.is_valid()
IsValid ==
    /\ mode = "data"
    /\ validated.state = "unset"
    /\ \E f \in {fieldsNow} :
         IF f.exc # "none"
         THEN /\ lastRead' = Read("is_valid", f.exc, None, None, f.order)
              /\ UNCHANGED <<fieldsCache, nestedFieldsCache, validated>>
         ELSE
           \E n \in {nestedFieldsNow} :
           \E r \in {Serializer_to_internal_value(f.v.v, initial_data, n, 1,
                                                  <<>>, FALSE)} :
              /\ fieldsCache' = Cached(f.v.v)
              /\ nestedFieldsCache' =
                   IF HasNested(f.v.v, initial_data) /\ n.exc = "none"
                   THEN Cached(n.v.v)
                   ELSE nestedFieldsCache
              /\ IF r.exc = "none"
                 THEN /\ validated' = [state |-> "valid", v |-> r.v]
                      /\ lastRead' = Read("is_valid", "none", None, None, f.order)
                 ELSE IF r.exc = "ValidationError"
                 THEN /\ validated' = [state |-> "invalid", v |-> <<>>]
                      /\ lastRead' = Read("is_valid", "none", None, None, f.order)
                 ELSE /\ validated' = validated
                      /\ lastRead' = Read("is_valid", r.exc, None, None, f.order)
    /\ Resolve
    /\ UNCHANGED <<Meta, request, mode, initial_data, dataCache, rebinds>>

\* lines 164-197: what reading serializer.data gives in the current state
dataNow ==
    IF mode = "data" /\ validated.state = "unset"
    THEN FoldRaised("AssertionError", None, <<>>)
    ELSE IF dataCache.set THEN Folded(Some(dataCache.v), <<>>)
    ELSE IF mode = "instance" THEN instance_data(Meta, selfVersion)
    ELSE IF validated.state = "valid"
    THEN Let(Serializer_to_representation(
                 fieldsCache.v, validated.v, nestedFieldsNow, 1, <<>>),
             LAMBDA r :
               IF r.exc = "none" THEN Folded(Some(r.v), <<>>)
               ELSE FoldRaised(r.exc, None, <<>>))
    ELSE Folded(Some(get_initial(fieldsCache.v, initial_data)), <<>>)

\* serializer.data
ReadData ==
    /\ \E d \in {dataNow} :
           /\ lastRead' = Read("data", d.exc, None, d.v, d.order)
           /\ dataCache' = IF d.exc = "none" THEN Cached(d.v.v) ELSE dataCache
    /\ Resolve
    /\ UNCHANGED <<Meta, request, mode, initial_data, fieldsCache,
                   nestedFieldsCache, validated, rebinds>>

\* serializer.updated_data
ReadUpdatedData ==
    /\ \E d \in {dataNow} :
         IF d.exc # "none"
         THEN /\ lastRead' = Read("updated_data", d.exc, None, None, <<>>)
              /\ dataCache' = dataCache
         ELSE
           \E u \in {updated_data(Meta, selfVersion, d.v.v)} :
              /\ lastRead' = Read("updated_data", u.exc, None,
                                  IF u.exc = "none" THEN u.v ELSE None,
                                  u.order)
              /\ dataCache' = Cached(d.v.v)
    /\ Resolve
    /\ UNCHANGED <<Meta, request, mode, initial_data, fieldsCache,
                   nestedFieldsCache, validated, rebinds>>

\* request.version = v, by the code that owns the request
SetRequestVersion(v) ==
    /\ request.kind = "versioned"
    /\ request.version # v
    /\ rebinds < MaxRebinds
    /\ request' = Versioned(v)
    /\ rebinds' = rebinds + 1
    /\ UNCHANGED <<Meta, mode, initial_data, fieldsCache, nestedFieldsCache,
                   validated, dataCache, lastRead, resolved>>

RebindChangeSets ==
    {<<Registered(K2, Single(RemoveField("c", "CharField", PyNone))),
       Registered(K1, Single(AddField("b", "IntegerField", Val("int", "0"))))>>,
     <<Registered(K2, Single(RenameField("c", "b"))),
       Registered(K1, Single(RenameField("b", "a")))>>}

RebindVersions == {Strftime(d) : d \in Dates}

RebindInit ==
    /\ Meta \in RebindChangeSets
    /\ request \in {Versioned(v) : v \in RebindVersions}
    /\ mode \in {"instance", "data"}
    /\ initial_data \in
         IF mode = "instance" THEN {<<>>}
         ELSE {Instance, version_input(Meta, version(request, request))}
    /\ Constructed

OpNext ==
    \/ CallUpdate /\ UNCHANGED <<negVars, serVars>>
    \/ CallDowngrade /\ UNCHANGED <<negVars, serVars>>

NegNext == DetermineVersion /\ UNCHANGED <<opVars, serVars>>

SerNext ==
    \/ ReadVersions /\ UNCHANGED <<negVars, opVars>>
    \/ ReadFields /\ UNCHANGED <<negVars, opVars>>
    \/ IsValid /\ UNCHANGED <<negVars, opVars>>
    \/ ReadData /\ UNCHANGED <<negVars, opVars>>
    \/ ReadUpdatedData /\ UNCHANGED <<negVars, opVars>>

RebindNext ==
    \/ SerNext
    \/ \E v \in RebindVersions :
          SetRequestVersion(v) /\ UNCHANGED <<negVars, opVars>>

\* a serializer is constructed; nothing else is in use
Init == SerInit /\ NegIdle /\ OpIdle

InitRebind == RebindInit /\ NegIdle /\ OpIdle

\* a request reaches the versioning scheme; nothing else is in use
InitNeg == NegInit /\ OpIdle /\ SerIdle

\* a change, a payload and a field set are built; nothing else is in use
InitOps == OpInit /\ NegIdle /\ SerIdle

Spec == Init /\ [][SerNext]_vars

SpecRebind == InitRebind /\ [][RebindNext]_vars

SpecNeg == InitNeg /\ [][NegNext]_vars

SpecOps == InitOps /\ [][OpNext]_vars

--------------------------------------------------------------------------
(* Properties of determine_version                                         *)

ModelYears == {2018, 2019}

\* the texts that denote the date <<y, m, d>> under '%Y-%m-%d': a four digit
\* year, month and day with or without the leading zero (the day may also
\* be padded with a space)
Spellings(y, m, d) ==
    LET ms == {TwoDigits(m)} \cup (IF m < 10 THEN {<<Digits[m + 1]>>} ELSE {})
        ds == {TwoDigits(d)}
                \cup (IF d < 10 THEN {<<Digits[d + 1]>>, <<" ", Digits[d + 1]>>}
                      ELSE {})
    IN  {TwoDigits(y \div 100) \o TwoDigits(y % 100) \o <<"-">> \o mt
            \o <<"-">> \o dt : mt \in ms, dt \in ds}

ParsesAsDate(s) ==
    \E y \in ModelYears : \E m \in 1..12 : \E d \in 1..DaysInMonth(y, m) :
        s \in Spellings(y, m, d)

\* C5: determine_version has exactly three outcomes: without the header it
\* returns today's date as a zero padded YYYY-MM-DD text; with a header that
\* parses as a date it returns the header unchanged; with a header that
\* does not parse it raises NotAcceptable and returns no version at all.
C5_ThreeOutcomes ==
    negotiated.outcome # "none" =>
        /\ META = Absent =>
              /\ negotiated.outcome = "returned"
              /\ Len(negotiated.version) = 10
              /\ negotiated.version \in Spellings(now[1], now[2], now[3])
        /\ (META # Absent /\ ParsesAsDate(META)) =>
              /\ negotiated.outcome = "returned"
              /\ negotiated.version = META
        /\ (META # Absent /\ ~ParsesAsDate(META)) =>
              /\ negotiated.outcome = "NotAcceptable"
              /\ negotiated.version = <<>>

C5_Witness ==
    /\ META # Absent
    /\ ~ParsesAsDate(META)
    /\ Len(META) = 10
    /\ negotiated.outcome = "NotAcceptable"

--------------------------------------------------------------------------
(* Properties of the Change operations                                     *)

\* the conversions the two fields of a ChangeField define, old to new and
\* back, return the value they started from
Lossless(c, x) ==
    LET dec == to_internal_value(c.field, x)
        enc == to_representation(c.new_field, dec.v)
        back == to_internal_value(c.new_field, enc.v)
        rep == to_representation(c.field, back.v)
    IN  /\ dec.exc = "none"
        /\ enc.exc = "none"
        /\ back.exc = "none"
        /\ rep.exc = "none"
        /\ rep.v = x

\* the payload is of the shape the change starts from
Applicable(c, p) ==
    /\ ~p.none
    /\ c.op = "AddField" => ~HasKey(p.v, c.name)
    /\ c.op = "RenameField" => HasKey(p.v, c.from_name) /\ ~HasKey(p.v, c.to)
    /\ c.op = "ChangeField" => HasKey(p.v, c.name) /\ Lossless(c, p.v[c.name])

\* C6: for AddField, RenameField and ChangeField, update followed by
\* downgrade returns a payload equal to the payload update was given.
C6_RoundTrip ==
    (/\ calls \in {<<"update">>, <<"update", "downgrade">>}
     /\ change.op \in {"AddField", "RenameField", "ChangeField"}
     /\ origFields.none
     /\ Applicable(change, origPayload))
        => /\ returned.exc = "none"
           /\ calls = <<"update", "downgrade">> => returned.payload = origPayload

\* C8: update and downgrade leave the mapping and the field set the caller
\* passed in, and the Change object, as they were before the call.
C8_Pure ==
    calls # <<>> =>
        /\ callerPayload = origPayload
        /\ callerFields = origFields
        /\ change = origChange

--------------------------------------------------------------------------
(* Properties of VersionedSerializer                                       *)

Range(s) == {s[i] : i \in DOMAIN s}
RemoveAt(s, i) == SubSeq(s, 1, i - 1) \o SubSeq(s, i + 1, Len(s))

\* a text in YYYY-MM-DD form: the zero padded spelling of a date
IsDateForm(s) == Strptime(s) # NoDate /\ s = Strftime(Strptime(s))

\* the canonical (latest) payload of Instance
CanonPayload ==
    [a |-> Val("str", "5"), b |-> Val("int", "1"),
     h |-> DictVal([name |-> Val("str", "x")])]

Unbound == request.kind \in {"nocontext", "norequest", "noversion"}

\* C1: with a negotiated version in YYYY-MM-DD form, a registered key is in
\* the active set exactly when its date is strictly later than the date of
\* the version; the key equal to the version is not in it.
C1_StrictlyNewer ==
    (/\ lastRead.prop = "versions"
     /\ request.kind = "versioned"
     /\ IsDateForm(request.version))
        => \A i \in DOMAIN Meta :
              (Meta[i].key \in Range(lastRead.keys))
                 <=> DateLt(Strptime(request.version), Strptime(Meta[i].key))

C1_Witness ==
    /\ lastRead.prop = "versions"
    /\ request = Versioned(K1)
    /\ Len(Meta) = 2
    /\ lastRead.keys = <<K2>>

StrictlyDescending(keys) ==
    \A i \in DOMAIN keys : \A j \in DOMAIN keys :
        i < j => StrGt(keys[i], keys[j])

StrictlyAscending(keys) ==
    \A i \in DOMAIN keys : \A j \in DOMAIN keys :
        i < j => StrGt(keys[j], keys[i])

\* C2: whatever the order of registration, get_fields and the instance
\* path of data visit the active keys newest first, and updated_data visits
\* them oldest first.
C2_FoldOrder ==
    /\ lastRead.prop \in {"fields", "data"} => StrictlyDescending(lastRead.keys)
    /\ lastRead.prop = "updated_data" => StrictlyAscending(lastRead.keys)

\* the flat list of the active changes in the order the downgrade folds
\* unapply them
RECURSIVE Flatten(_, _)
Flatten(active, i) ==
    IF i > Len(active) THEN <<>>
    ELSE active[i].entry.changes \o Flatten(active, i + 1)

\* every change, unapplied in turn, finds the field set it was made for
RECURSIVE ConsistentFrom(_, _, _)
ConsistentFrom(cs, i, fields) ==
    IF i > Len(cs) THEN TRUE
    ELSE LET c == cs[i]
             names == FieldNames(fields)
             fits ==
                CASE c.op = "AddField" -> c.name \in names
                  [] c.op = "RemoveField" -> c.name \notin names
                  [] c.op = "RenameField" ->
                        c.to \in names /\ c.from_name \notin names
                  [] c.op = "ChangeField" ->
                        c.name \in names /\ FieldGet(fields, c.name) = c.new_field
                  [] OTHER -> TRUE
         IN  /\ fits
             /\ ConsistentFrom(cs, i + 1,
                               downgrade_item(c, Some(fields), 0).v.v)

NoOpFree(cs) == \A i \in DOMAIN cs : cs[i].op # "APIChange"

Consistent(meta, ver) ==
    LET cs == Flatten(versions(meta, ver), 1)
    IN  NoOpFree(cs) /\ ConsistentFrom(cs, 1, CanonFields)

NewestFirst(meta) ==
    StrictlyDescending([i \in DOMAIN meta |-> meta[i].key])

ActiveDefaults(meta, ver) ==
    LET cs == Flatten(versions(meta, ver), 1)
    IN  {cs[i].default : i \in {j \in DOMAIN cs : cs[j].op = "AddField"}}

\* C3: for a ChangeSet consistent with the canonical schema and registered
\* newest first, and an input valid for the negotiated version,
\* updated_data has exactly the canonical keys, every plain field holding
\* the canonical value or the default of an active AddField.
C3_UpdatedIsCanonical ==
    (/\ mode = "data"
     /\ lastRead.prop = "updated_data"
     /\ validated.state = "valid"
     /\ request.kind = "versioned"
     /\ initial_data = version_input(Meta, selfVersion)
     /\ NewestFirst(Meta)
     /\ Consistent(Meta, selfVersion))
        => /\ lastRead.exc = "none"
           /\ DOMAIN lastRead.payload.v = DOMAIN CanonPayload
           /\ \A n \in {"a", "b"} :
                 \/ lastRead.payload.v[n] = CanonPayload[n]
                 \/ lastRead.payload.v[n] \in ActiveDefaults(Meta, selfVersion)

\* C4: without a bound version the active set is empty, the field set is
\* the declared one and the output payload is the canonical payload.
C4_UnboundIsCanonical ==
    Unbound =>
        /\ lastRead.prop = "versions" => lastRead.keys = <<>>
        /\ lastRead.prop = "fields" =>
              lastRead.exc = "none" /\ lastRead.fields = Some(CanonFields)
        /\ (lastRead.prop = "data" /\ mode = "instance") =>
              lastRead.exc = "none" /\ lastRead.payload = Some(CanonPayload)
        /\ (lastRead.prop = "data" /\ mode = "data" /\ validated.state = "valid") =>
              lastRead.exc = "none" /\ lastRead.payload = Some(CanonPayload)

C4_Witness ==
    /\ request = NoVersionAttribute
    /\ Len(Meta) = 2
    /\ mode = "instance"
    /\ lastRead.prop = "data"
    /\ fieldsCache.set

\* C7: in the payload of a parent bound to an instance and read at version
\* V, the value of the nested serializer is its output resolved at V.
C7_NestedAtParentVersion ==
    (/\ mode = "instance"
     /\ lastRead.prop = "data"
     /\ lastRead.exc = "none"
     /\ request.kind = "versioned"
     /\ HasKey(lastRead.payload.v, "h"))
        => lastRead.payload.v["h"] = DictVal(nested_data(selfVersion).v.v)

\* C9: once the field set or data was read, every later read of the field
\* set, data and updated_data gives what the version bound at that first
\* read gives.
C9_ResolvedOnce ==
    (resolved.set /\ mode = "instance" /\ lastRead.exc = "none") =>
        /\ lastRead.prop = "fields" =>
              lastRead.fields = get_fields(CanonFields, Meta, resolved.ver).v
        /\ lastRead.prop = "data" =>
              lastRead.payload = instance_data(Meta, resolved.ver).v
        /\ lastRead.prop = "updated_data" =>
              lastRead.payload =
                 updated_data(Meta, resolved.ver,
                              instance_data(Meta, resolved.ver).v.v).v

SameOutcome(exc, value, r) ==
    /\ exc = r.exc
    /\ exc = "none" => value = r.v

\* C10: a key holding APIChange changes nothing: the field set, the output
\* payload and the updated payload are those of the ChangeSet without it.
C10_NoOpIsIdentity ==
    \A i \in DOMAIN Meta :
        (Meta[i].entry = Single(APIChange) /\ mode = "instance"
            /\ ~fieldsCache.set /\ ~dataCache.set) =>
            LET without == RemoveAt(Meta, i)
            IN  /\ lastRead.prop = "fields" =>
                      SameOutcome(lastRead.exc, lastRead.fields,
                                  get_fields(CanonFields, without, selfVersion))
                /\ lastRead.prop = "data" =>
                      SameOutcome(lastRead.exc, lastRead.payload,
                                  instance_data(without, selfVersion))

\* C11: for a version text that determine_version returns for a present
\* X-Version header, a registered key is in the active set exactly when its
\* date is strictly later than the date the version text denotes.
C11_SelectionIsCalendarOrder ==
    (/\ lastRead.prop = "versions"
     /\ request.kind = "versioned"
     /\ determine_version(request.version, now) =
            [outcome |-> "returned", version |-> request.version])
        => \A i \in DOMAIN Meta :
              (Meta[i].key \in Range(lastRead.keys))
                 <=> DateLt(Strptime(request.version), Strptime(Meta[i].key))

====
